---------------------------- MODULE Spec2Model ----------------------------
(***************************************************************************)
(* The two spec-review serverless handlers of vesselforge-dashboard:       *)
(*   netlify/functions/specReview.js  (exports.handler, "netlify")         *)
(*   api/specReview.js                (handler, "vercel")                  *)
(* One behaviour is one invocation.  Every await of the code is a step; the *)
(* synchronous code that follows an await belongs to the same step.         *)
(* External services (file storage, Azure Read, OCR.space, the LLM API)     *)
(* answer nondeterministically.                                             *)
(***************************************************************************)
EXTENDS Integers, Sequences, FiniteSets, TLC

(***************************************************************************)
(* Bounds of the model.                                                    *)
(***************************************************************************)
MaxFiles == 2      \* longest files[] array of a request
MaxRecs  == 2      \* most records in one JSON array the LLM returns
LongStem == 80000  \* characters before the dot in the longest file name
MaxStrides == 7    \* a text of any size has up to MaxStrides * 19000 + 1001 characters

(***************************************************************************)
(* Program constants.                                                      *)
(***************************************************************************)
MinTextLen   == 50       \* text.trim().length < 50
MaxChars     == 150000   \* const maxChars = 150_000
ChunkTrigger == 25000    \* text.length > 25000
ChunkSize    == 20000    \* const chunkSize = 20000
Overlap      == 1000     \* const overlap = 1000
MaxPolls     == 30       \* for (let i = 0; i < 30; i++) / while (attempts < 30)
PollDelayMs  == 1000     \* setTimeout(r, 1000)
KeyLen       == 100      \* .slice(0, 100)

Min(a, b) == IF a < b THEN a ELSE b
Max(a, b) == IF a > b THEN a ELSE b

(***************************************************************************)
(* Document texts.  A text is lead blanks, then body non-blank characters, *)
(* then trail blanks; kind and src say where its characters come from.     *)
(***************************************************************************)
Txt(kind, src, lead, body, trail) ==
  [kind |-> kind, src |-> src, lead |-> lead, body |-> body, trail |-> trail]

NoText == Txt("none", 0, 0, 0, 0)

\* text.length
TextLength(t) == t.lead + t.body + t.trail

\* text.trim().length
TrimLength(t) == t.body

\* text.slice(a, b)
TextSlice(t, a, b) ==
  LET len  == TextLength(t)
      lo   == Min(Max(a, 0), len)
      hi   == Max(Min(b, len), lo)
      cut(x, y) == Max(0, Min(hi, y) - Max(lo, x))
      l    == cut(0, t.lead)
      m    == cut(t.lead, t.lead + t.body)
      r    == cut(t.lead + t.body, len)
  IN  IF m = 0 THEN Txt(t.kind, t.src, l + r, 0, 0)
      ELSE Txt(t.kind, t.src, l, m, r)

\* Every text counts as insufficient.
InsufficientAlways(t) == TRUE

\* !text || text.trim().length < 50
Insufficient(t) == TextLength(t) = 0 \/ TrimLength(t) < MinTextLen

\* ocrText && ocrText.trim().length > 50
OcrAdopted(t) == TextLength(t) # 0 /\ TrimLength(t) > MinTextLen

\* if (text.length > maxChars) text = text.slice(0, maxChars)
\* Nothing is cut.
TruncateNever(t) == t

\* if (text.length > maxChars) text = text.slice(0, maxChars)
Truncate(t) == IF TextLength(t) > MaxChars THEN TextSlice(t, 0, MaxChars) ELSE t

(***************************************************************************)
(* Requirement strings, run-length encoded: a sequence of <<char, count>>. *)
(* Characters: "a", "A", "b", "c" and the blank " ".                       *)
(***************************************************************************)
RECURSIVE Canon(_)
Canon(s) ==
  IF s = <<>> THEN <<>>
  ELSE LET rest == Canon(Tail(s))
           h    == Head(s)
       IN  IF h[2] = 0 THEN rest
           ELSE IF rest # <<>> /\ rest[1][1] = h[1]
                THEN <<(<<h[1], h[2] + rest[1][2]>>)>> \o Tail(rest)
                ELSE <<h>> \o rest

RECURSIVE StrLen(_)
StrLen(s) == IF s = <<>> THEN 0 ELSE Head(s)[2] + StrLen(Tail(s))

LowerChar(c) == IF c = "A" THEN "a" ELSE c

\* s.toLowerCase()
ToLowerCase(s) == Canon([k \in 1..Len(s) |-> <<LowerChar(s[k][1]), s[k][2]>>])

RECURSIVE TrimStart(_)
TrimStart(s) ==
  IF s = <<>> THEN <<>>
  ELSE IF Head(s)[1] = " " THEN TrimStart(Tail(s)) ELSE s

RECURSIVE TrimEnd(_)
TrimEnd(s) ==
  IF s = <<>> THEN <<>>
  ELSE IF s[Len(s)][1] = " " THEN TrimEnd(SubSeq(s, 1, Len(s) - 1)) ELSE s

\* s.trim()
Trim(s) == TrimEnd(TrimStart(Canon(s)))

\* s.slice(0, n)
RECURSIVE StrPrefix(_, _)
StrPrefix(s, n) ==
  IF s = <<>> \/ n <= 0 THEN <<>>
  ELSE IF Head(s)[2] >= n THEN <<(<<Head(s)[1], n>>)>>
       ELSE <<Head(s)>> \o StrPrefix(Tail(s), n - Head(s)[2])

\* the normalized requirement text: trimmed and lower-cased
Normalized(s) == ToLowerCase(Trim(s))

(***************************************************************************)
(* LLM output.  A response text is a sequence of tokens: "p" is prose      *)
(* without brackets, "[" and "]" are the brackets, "obj" is a JSON value   *)
(* that is not an array, any other token names a record (an element of a   *)
(* JSON array).                                                            *)
(***************************************************************************)
ReqA   == <<(<<"a", 3>>)>>                               \* "aaa"
ReqB   == << <<" ", 1>>, <<"A", 3>>, <<" ", 2>> >>       \* " AAA  "
ReqC   == << <<"a", KeyLen>>, <<"b", 1>> >>              \* 100 a's then "b"
ReqD   == << <<"A", KeyLen>>, <<"c", 1>> >>              \* 100 A's then "c"
ReqNone == <<>>                                          \* absent or ""

\* The id of a record as the LLM wrote it: a string, a number, or absent.
JsString(s) == [type |-> "string", s |-> s, n |-> 0]
JsNumber(n) == [type |-> "number", s |-> "", n |-> n]
JsAbsent    == [type |-> "absent", s |-> "", n |-> 0]

\* !v for such a value
Falsy(v) ==
  v.type = "absent" \/ (v.type = "string" /\ v.s = "") \/ (v.type = "number" /\ v.n = 0)

\* String(v)
String(v) == IF v.type = "number" THEN ToString(v.n) ELSE v.s

RawRec(ok, id, sev, cat, req, rat, src) ==
  [ok |-> ok, id |-> id, severity |-> sev, category |-> cat,
   requirement |-> req, rationale |-> rat, source |-> src, details |-> "more"]

\* The record a token of a JSON array stands for.  "" is an absent (falsy)
\* field; ok = FALSE is an element that is no object with a string
\* requirement (null, or requirement: 5).
Rec(tok) ==
  CASE tok = "rA" -> RawRec(TRUE, JsString("req_1"), "High", "Welding", ReqA, "why", "doc")
    [] tok = "rB" -> RawRec(TRUE, JsAbsent, "", "", ReqB, "", "")
    [] tok = "rC" -> RawRec(TRUE, JsNumber(7), "", "Code", ReqC, "why", "")
    [] tok = "rD" -> RawRec(TRUE, JsNumber(0), "Low", "", ReqD, "", "doc")
    [] tok = "rE" -> RawRec(TRUE, JsString("req_5"), "", "", ReqNone, "", "")
    [] OTHER      -> RawRec(FALSE, JsAbsent, "", "", ReqNone, "", "")

Syntax == {"p", "[", "]", "obj"}

\* JSON.parse(s): threw, or the parsed value (an array of records or not).
JsonParse(s) ==
  IF s = <<"obj">>
  THEN [threw |-> FALSE, isArray |-> FALSE, items |-> <<>>]
  ELSE IF /\ Len(s) >= 2 /\ s[1] = "[" /\ s[Len(s)] = "]"
          /\ \A k \in 2..(Len(s) - 1) : s[k] \notin Syntax
       THEN [threw |-> FALSE, isArray |-> TRUE,
             items |-> [k \in 1..(Len(s) - 2) |-> Rec(s[k + 1])]]
       ELSE [threw |-> TRUE, isArray |-> FALSE, items |-> <<>>]

\* s.indexOf(c), 0-based, -1 when absent
IndexOf(s, c) ==
  IF \E k \in 1..Len(s) : s[k] = c
  THEN (CHOOSE k \in 1..Len(s) : s[k] = c /\ \A j \in 1..(k - 1) : s[j] # c) - 1
  ELSE -1

\* s.lastIndexOf(c), 0-based, -1 when absent
LastIndexOf(s, c) ==
  IF \E k \in 1..Len(s) : s[k] = c
  THEN (CHOOSE k \in 1..Len(s) : s[k] = c /\ \A j \in (k + 1)..Len(s) : s[j] # c) - 1
  ELSE -1

\* s.slice(a, b) of a token sequence, 0-based half-open
TokSlice(s, a, b) == SubSeq(s, a + 1, Min(b, Len(s)))

Parsed(threw, isArray, items) == [threw |-> threw, isArray |-> isArray, items |-> items]

\* try { JSON.parse(response) } catch { slice from the first "[" to the last
\* "]" when end > start, else [] }; a value that is no array becomes [].
\* (netlify single call, vercel)
ParseResponse(s) ==
  LET direct == JsonParse(s)
      start  == IndexOf(s, "[")
      end    == LastIndexOf(s, "]")
  IN  IF ~direct.threw
      THEN Parsed(FALSE, TRUE, IF direct.isArray THEN direct.items ELSE <<>>)
      ELSE IF start # -1 /\ end # -1 /\ end > start
           THEN LET inner == JsonParse(TokSlice(s, start, end + 1))
                IN  IF inner.threw THEN Parsed(TRUE, FALSE, <<>>)
                    ELSE Parsed(FALSE, TRUE, IF inner.isArray THEN inner.items ELSE <<>>)
           ELSE Parsed(FALSE, TRUE, <<>>)

\* The chunk variant: no end > start test, and a value that is no array is
\* left as it is (the caller then skips it).
ParseChunkResponse(s) ==
  LET direct == JsonParse(s)
      start  == IndexOf(s, "[")
      end    == LastIndexOf(s, "]")
  IN  IF ~direct.threw THEN direct
      ELSE IF start # -1 /\ end # -1
           THEN JsonParse(TokSlice(s, start, end + 1))
           ELSE Parsed(FALSE, TRUE, <<>>)

\* The key keeps the case of the text.
DedupeKeyCaseSensitive(r) == StrPrefix(Trim(r.requirement), KeyLen)

\* (r.requirement || '').trim().toLowerCase().slice(0, 100)
DedupeKey(r) == StrPrefix(ToLowerCase(Trim(r.requirement)), KeyLen)

\* results.filter(r => { key...; if (!key || seen.has(key)) return false;
\* seen.add(key); return true })
RECURSIVE DedupeFrom(_, _)
DedupeFrom(rs, seen) ==
  IF rs = <<>> THEN <<>>
  ELSE LET key == DedupeKey(Head(rs))
       IN  IF key = <<>> \/ key \in seen
           THEN DedupeFrom(Tail(rs), seen)
           ELSE <<Head(rs)>> \o DedupeFrom(Tail(rs), seen \cup {key})

Reverse(s) == [k \in 1..Len(s) |-> s[Len(s) + 1 - k]]

\* Of the records sharing a key the last one is kept.
DedupeKeepLast(rs) == Reverse(DedupeFrom(Reverse(rs), {}))

Dedupe(rs) == DedupeFrom(rs, {})

\* The filter callback throws on an element that is null or whose
\* requirement is no string.
DedupeThrows(rs) == \E k \in 1..Len(rs) : ~rs[k].ok

OrElse(v, d) == IF v = "" THEN d ELSE v

\* The default id is the 0-based position.
NormalizeRecordZeroBased(r, i) ==
  [id          |-> String(IF Falsy(r.id) THEN JsNumber(i) ELSE r.id),
   severity    |-> OrElse(r.severity, "Medium"),
   category    |-> OrElse(r.category, "Design"),
   requirement |-> r.requirement,
   rationale   |-> OrElse(r.rationale, ""),
   source      |-> OrElse(r.source, "null")]

\* results.map((r, i) => ({ id: String(r.id || i + 1), severity: ..., ... }))
NormalizeRecord(r, i) ==
  [id          |-> String(IF Falsy(r.id) THEN JsNumber(i + 1) ELSE r.id),
   severity    |-> OrElse(r.severity, "Medium"),
   category    |-> OrElse(r.category, "Design"),
   requirement |-> r.requirement,
   rationale   |-> OrElse(r.rationale, ""),
   source      |-> OrElse(r.source, "null")]

Normalize(rs) == [k \in 1..Len(rs) |-> NormalizeRecord(rs[k], k - 1)]

\* for (let i = 0; i < text.length; i += chunkSize - overlap) chunks.push(...)
CeilDiv(a, b) == (a + b - 1) \div b

\* The loop steps by the chunk size: no overlap.
RECURSIVE ChunkLoopNoOverlap(_, _)
ChunkLoopNoOverlap(t, i) ==
  IF i < TextLength(t)
  THEN <<[text        |-> TextSlice(t, i, i + ChunkSize),
          start       |-> i,
          chunkNum    |-> (i \div (ChunkSize - Overlap)) + 1,
          totalChunks |-> CeilDiv(TextLength(t), ChunkSize - Overlap)]>>
       \o ChunkLoopNoOverlap(t, i + ChunkSize)
  ELSE <<>>

RECURSIVE ChunkLoop(_, _)
ChunkLoop(t, i) ==
  IF i < TextLength(t)
  THEN <<[text        |-> TextSlice(t, i, i + ChunkSize),
          start       |-> i,
          chunkNum    |-> (i \div (ChunkSize - Overlap)) + 1,
          totalChunks |-> CeilDiv(TextLength(t), ChunkSize - Overlap)]>>
       \o ChunkLoop(t, i + (ChunkSize - Overlap))
  ELSE <<>>

MakeChunks(t) == ChunkLoop(t, 0)

(***************************************************************************)
(* The request and the world it runs in.                                   *)
(***************************************************************************)
\* An element of files[]: null, or {name, url}.  A name is a stem of some
\* length, a dot and an extension.
FileEntry(isNull, stem, ext, url) ==
  [isNull |-> isNull, stem |-> stem, ext |-> ext, url |-> url]

NullEntry == FileEntry(TRUE, 0, "", "")

FileKinds ==
  { NullEntry,
    FileEntry(FALSE, 1, "pdf",  "scan"),      \* a scanned PDF: no text layer
    FileEntry(FALSE, 1, "pdf",  "textpdf"),   \* a PDF with a text layer
    FileEntry(FALSE, 1, "txt",  "txt60"),     \* 60 characters of text
    FileEntry(FALSE, 1, "txt",  "txt10"),     \* 10 characters of text
    FileEntry(FALSE, 3, "txt",  "txtbig"),    \* 25001 characters of text
    FileEntry(FALSE, 1, "docx", "docx"),      \* a Word document
    FileEntry(FALSE, 1, "bin",  "bin"),       \* an unsupported type
    FileEntry(FALSE, 1, "txt",  "gone") }     \* the storage answers 404

ExtLen(ext) == IF ext = "docx" THEN 4 ELSE IF ext = "" THEN 0 ELSE 3
NameLen(f) == f.stem + 1 + ExtLen(f.ext)

\* name.toLowerCase() on the extension
LowerExt(ext) == IF ext = "PDF" THEN "pdf" ELSE ext

\* What fetch(f.url) gives: it throws, or a status and a content type.
FetchOutcome(url) ==
  CASE url = "down" -> [threw |-> TRUE,  ok |-> FALSE, ctype |-> ""]
    [] url = "gone" -> [threw |-> FALSE, ok |-> FALSE, ctype |-> ""]
    [] url \in {"scan", "textpdf"}
                    -> [threw |-> FALSE, ok |-> TRUE,  ctype |-> "application/pdf"]
    [] url = "docx" -> [threw |-> FALSE, ok |-> TRUE,  ctype |-> "officedocument"]
    [] url = "bin"  -> [threw |-> FALSE, ok |-> TRUE,  ctype |-> "application/octet-stream"]
    [] OTHER        -> [threw |-> FALSE, ok |-> TRUE,  ctype |-> "text/plain"]

CtypeLen(ct) ==
  CASE ct = "application/pdf" -> 15
    [] ct = "text/plain" -> 10
    [] ct = "application/octet-stream" -> 24
    [] ct = "officedocument" -> 71
    [] OTHER -> 0

\* buffer.toString('utf8') / new TextDecoder().decode(buffer)
Utf8Text(url, src) ==
  CASE url = "txt60"  -> Txt("file", src, 0, 60, 0)
    [] url = "txt10"  -> Txt("file", src, 2, 10, 1)
    [] url = "txtbig" -> Txt("file", src, 0, ChunkTrigger + 1, 0)
    [] url = "txthuge" -> Txt("file", src, 3, MaxChars + 1, 0)
    [] OTHER          -> Txt("file", src, 0, 300, 0)

\* The lengths around the multiples of the chunk stride, 25000 and 25001.
SizedLengths ==
  { ChunkTrigger, ChunkTrigger + 1 }
  \cup { m * (ChunkSize - Overlap) + d :
           m \in 1..MaxStrides, d \in {-1, 0, 1, Overlap - 1, Overlap, Overlap + 1} }

\* The text the store holds under the url "sized": any of these lengths at
\* or above 25000, with or without blanks at its start.
SizedTexts(src) ==
  { Txt("file", src, lead, n - lead, 0) :
      lead \in {0, 2}, n \in { x \in SizedLengths : x >= ChunkTrigger } }

\* new TextDecoder('utf-8').decode(buf): what the store may hold under url
FileTexts(url, src) ==
  IF url = "sized" THEN SizedTexts(src) ELSE { Utf8Text(url, src) }

\* pdfParse(buffer).text of a PDF that parses; a scan has blank pages only
PdfText(url, src) ==
  IF url = "scan" THEN Txt("file", src, 2, 0, 0) ELSE Txt("file", src, 0, 60, 0)

\* mammoth.extractRawText({buffer}).value
DocxText(url, src) == Txt("file", src, 0, 70, 2)

\* Texts an OCR service may return for file src.
OcrTexts(src) == { Txt("ocr", src, 0, MinTextLen, 0), Txt("ocr", src, 1, MinTextLen + 1, 1) }

\* Answers to a status request of the Azure read operation.
PollReply(threw, status, hasLines, text) ==
  [threw |-> threw, status |-> status, hasLines |-> hasLines, text |-> text]

PollReplies(src) ==
  { PollReply(TRUE, "", FALSE, NoText),
    PollReply(FALSE, "running", FALSE, NoText),
    PollReply(FALSE, "failed", FALSE, NoText),
    PollReply(FALSE, "succeeded", FALSE, NoText) }
  \cup { PollReply(FALSE, "succeeded", TRUE, t) : t \in OcrTexts(src) }

\* Answers of the analyze call: it throws, a non-ok status, ok without the
\* operation-location header, ok with it.
AnalyzeReplies == {"throw", "http-error", "no-location", "accepted"}

\* `Unsupported file type for ${f.name}. Content-type: ${contentType}`
UnsupportedStub(f, ct, src) ==
  Txt("unsupportedStub", src, 0, 26 + NameLen(f) + 16 + CtypeLen(ct), 0)

\* `Failed to load ${f.name}: ${err.message}`
FailedStub(f, msgLen, src) ==
  Txt("failedStub", src, 0, 15 + NameLen(f) + 2 + msgLen, 0)

\* err.message: `fetch ${f.name} -> ${res.status}`, or what a library threw
HttpErrorLen(f) == 6 + NameLen(f) + 4 + 3
NetworkErrorLen == 6 + 6
LibraryErrorLen == 20 + 20

(***************************************************************************)
(* State.                                                                  *)
(***************************************************************************)
VARIABLES
  handler,      \* "netlify" or "vercel": which function is invoked
  method,       \* event.httpMethod / req.method
  apiKey,       \* process.env.ANTHROPIC_API_KEY is set
  azure,        \* AZURE_CV_ENDPOINT and AZURE_CV_KEY are both set
  body,         \* event.body / req.body
  pc,           \* where the invocation stands
  fi,           \* netlify: 1-based position of f in files (for (const f of files))
  text,         \* let text: the text of the file being extracted
  i,            \* netlify: the poll loop's i
  attempts,     \* vercel: the poll loop's attempts
  docs,         \* netlify: const docs
  diagnostics,  \* const diagnostics
  results,      \* let results
  chunks,       \* netlify: const chunks
  ci,           \* netlify: 1-based position in chunks of the chunk being sent
  response,     \* what the invocation returned (status 0: nothing yet)
  nFetch,       \* file fetches issued
  nOcr,         \* OCR submissions issued (Azure analyze, OCR.space)
  nLlm,         \* anthropic.messages.create calls issued
  polls,        \* status requests issued by the poll loop now running
  waited,       \* milliseconds slept by the poll loop now running
  pollStatus,   \* status of the last answer the running poll loop went on from
  llmSent,      \* the document text of every LLM request, in order
  llmGot,       \* the answer to every LLM request, in order
  failures,     \* what went wrong so far: pairs <<kind, file position>>
  trace,        \* the outbound calls and primary PDF parses so far, in order
  peer,         \* the locals of a second invocation in flight, or NoPeer
  interleaved   \* the event loop left one started invocation for another

\* What no step of a handler writes: the request, the environment and the
\* locals of another invocation.
input == <<handler, method, apiKey, azure, body, peer, interleaved>>
loop  == <<polls, waited, pollStatus>>
llm   == <<nLlm, llmSent, llmGot>>
calls == <<nFetch, nOcr, nLlm, polls, waited, pollStatus, llmSent, llmGot>>
vars  == <<handler, method, apiKey, azure, body, pc, fi, text, i, attempts, docs,
           diagnostics, results, chunks, ci, response, nFetch, nOcr, nLlm,
           polls, waited, pollStatus, llmSent, llmGot, failures, trace, peer, interleaved>>

D(tag, arg) == [tag |-> tag, arg |-> arg]

NoResponse == [status |-> 0, hasResults |-> FALSE, results |-> <<>>,
               hasDiagnostics |-> FALSE, diagnostics |-> <<>>]

\* The body leaves the diagnostics out.
RespondWithoutDiagnostics(st, hasR, rs, hasD, ds) ==
  /\ response' = [status |-> st, hasResults |-> hasR, results |-> rs,
                  hasDiagnostics |-> FALSE, diagnostics |-> <<>>]
  /\ pc' = "done"

\* return { statusCode, body } / res.status(..).json(..)
Respond(st, hasR, rs, hasD, ds) ==
  /\ response' = [status |-> st, hasResults |-> hasR, results |-> rs,
                  hasDiagnostics |-> hasD, diagnostics |-> ds]
  /\ pc' = "done"

\* An error response: no results field.
RespondError(st, hasD, ds) == Respond(st, FALSE, <<>>, hasD, ds)

Fails(kind, k) == failures' = failures \cup {<<kind, k>>}

\* An entry of trace: <<"azure-text", n>> and <<"ocrspace-text", n>> for an
\* OCR answer of n characters after trimming (Netlify), <<"fetch", k>>,
\* <<"parse-ok", k>>, <<"parse-short", k>>
\* and <<"ocr", k>> for file k, <<"llm", j>> for the j-th LLM call.
Log(e) == trace' = Append(trace, e)

\* const { tenderId, files = [] } = JSON.parse(event.body || '{}')
\* const { tenderId, files, test } = req.body
Body(shape, tenderId, test, filesKind, fs) ==
  [shape |-> shape, tenderId |-> tenderId, test |-> test,
   filesKind |-> filesKind, files |-> fs]

files == body.files

SeqsUpTo(S, n) == UNION { [1..k -> S] : k \in 0..n }

\* The entries that follow the first one: one for each way the file loop
\* can deal with a file.
LaterKinds == { f \in FileKinds : f.isNull \/ f.url \in {"scan", "txt60", "docx", "gone"} }

\* files[] arrays of a well-formed request: 1..MaxFiles entries, at most one
\* of them a scanned PDF.
FileLists ==
  { fs \in SeqsUpTo(FileKinds, MaxFiles) :
      /\ Len(fs) >= 1
      /\ \A k \in 2..Len(fs) : fs[k] \in LaterKinds
      /\ Cardinality({k \in 1..Len(fs) : fs[k].url = "scan"}) <= 1 }

\* One file per request.
SingleFileLists == { <<f>> : f \in FileKinds }

\* A text file longer than maxChars, and a file that cannot be fetched and
\* has a name of LongStem + 4 characters.
BigKinds ==
  { FileEntry(FALSE, 1, "txt", "txthuge"),
    FileEntry(FALSE, LongStem, "txt", "gone") }

\* files[] arrays with a big first entry and after it text files that load
\* or fail, and the arrays of one entry.
ChunkLists ==
  SingleFileLists
  \cup { <<b>> \o rest :
           b \in BigKinds,
           rest \in SeqsUpTo({ f \in LaterKinds : f.url \in {"txt60", "gone"} }, MaxFiles - 1) }

Bodies(h, lists) ==
  { Body("absent", FALSE, FALSE, "absent", <<>>) }
  \cup (IF h = "netlify" THEN { Body("malformed", FALSE, FALSE, "absent", <<>>) } ELSE {})
  \cup { Body("object", t, FALSE, k, <<>>) :
           t \in BOOLEAN, k \in {"absent", "null", "notArray", "array"} }
  \cup { Body("object", t, FALSE, "array", fs) : t \in BOOLEAN, fs \in lists }
  \cup (IF h = "vercel"
        THEN { Body("object", TRUE, TRUE, "absent", <<>>) }
             \cup { Body("object", TRUE, TRUE, "array", fs) : fs \in lists }
        ELSE {})

InitWith(lists) ==
  /\ handler \in {"netlify", "vercel"}
  /\ method \in {"GET", "POST", "OPTIONS"}
  /\ apiKey \in BOOLEAN
  /\ azure \in BOOLEAN
  /\ body \in Bodies(handler, lists)
  /\ pc = "start"
  /\ fi = 0
  /\ text = NoText
  /\ i = 0
  /\ attempts = 0
  /\ docs = <<>>
  /\ diagnostics = <<>>
  /\ results = <<>>
  /\ chunks = <<>>
  /\ ci = 0
  /\ response = NoResponse
  /\ nFetch = 0
  /\ nOcr = 0
  /\ nLlm = 0
  /\ polls = 0
  /\ waited = 0
  /\ pollStatus = ""
  /\ llmSent = <<>>
  /\ llmGot = <<>>
  /\ failures = {}
  /\ trace = <<>>

\* No second invocation.
NoPeer == [pc |-> "absent"]

InitChunk == InitWith(ChunkLists) /\ peer = NoPeer /\ interleaved = FALSE

Init == InitWith(FileLists) /\ peer = NoPeer /\ interleaved = FALSE

InitDedupe == InitWith(SingleFileLists) /\ peer = NoPeer /\ interleaved = FALSE

(***************************************************************************)
(* The Netlify function (netlify/functions/specReview.js).                  *)
(***************************************************************************)
\* The outer catch: statusCode 500, diagnostics: [`Function crashed: ...`]
N_Crash == RespondError(500, TRUE, <<D("Function crashed", 0)>>)

\* The method check left out.
N_GateAnyMethod ==
  IF ~apiKey THEN 501
  ELSE IF body.shape = "malformed" \/ body.filesKind = "null" THEN 500
  ELSE IF ~body.tenderId \/ body.filesKind # "array" \/ Len(files) = 0 THEN 400
  ELSE 0

\* Lines 12-33: the status the checks before the file loop return, 0 when
\* the request passes them.  JSON.parse of a malformed body throws, and so
\* does files.length of files: null.
N_Gate ==
  IF method # "POST" THEN 405
  ELSE IF ~apiKey THEN 501
  ELSE IF body.shape = "malformed" \/ body.filesKind = "null" THEN 500
  ELSE IF ~body.tenderId \/ body.filesKind # "array" \/ Len(files) = 0 THEN 400
  ELSE 0

N_Start ==
  /\ pc = "start" /\ handler = "netlify"
  /\ IF N_Gate = 0
     THEN pc' = "n_fetch" /\ fi' = 1 /\ UNCHANGED response
     ELSE /\ IF N_Gate = 500 THEN N_Crash ELSE RespondError(N_Gate, FALSE, <<>>)
          /\ UNCHANGED fi
  /\ UNCHANGED <<trace, input, calls, failures, text, i, attempts, docs, diagnostics, results,
                 chunks, ci>>

\* The dispatch on content type and name, lines 49, 147, 151, 153.
N_Kind(f, ct) ==
  IF ct = "application/pdf" \/ LowerExt(f.ext) = "pdf" THEN "pdf"
  ELSE IF ct = "officedocument" \/ LowerExt(f.ext) = "docx" THEN "docx"
  ELSE IF ct = "text/plain" \/ LowerExt(f.ext) \in {"txt", "md", "csv", "json"} THEN "text"
  ELSE "other"

\* The loop is left after the first file.
N_NextFileOnlyFirst ==
  /\ fi' = fi + 1
  /\ pc' = "n_import"
  /\ text' = NoText
  /\ i' = 0

\* The end of one iteration of for (const f of files).
N_NextFile ==
  /\ fi' = fi + 1
  /\ pc' = IF fi + 1 <= Len(files) THEN "n_fetch" ELSE "n_import"
  /\ text' = NoText
  /\ i' = 0

\* The document is put in front of the ones before it.
N_FinishFilePrepend(t, ds) ==
  /\ docs' = <<[name |-> fi, text |-> Truncate(t)]>> \o docs
  /\ diagnostics' = IF Insufficient(Truncate(t))
                    THEN Append(ds, D("EMPTY TEXT", fi)) ELSE ds
  /\ N_NextFile

\* Lines 158-163: truncate, docs.push, the EMPTY TEXT diagnostic.
N_FinishFile(t, ds) ==
  /\ docs' = Append(docs, [name |-> fi, text |-> Truncate(t)])
  /\ diagnostics' = IF Insufficient(Truncate(t))
                    THEN Append(ds, D("EMPTY TEXT", fi)) ELSE ds
  /\ N_NextFile

\* The per-file catch records the error and pushes no document.
N_FileErrorNoDoc(msgLen, ds) ==
  /\ diagnostics' = Append(ds, D("FETCH ERROR", fi))
  /\ docs' = docs
  /\ N_NextFile

\* Lines 164-167: the per-file catch.
N_FileError(msgLen, ds) ==
  /\ diagnostics' = Append(ds, D("FETCH ERROR", fi))
  /\ docs' = Append(docs, [name |-> fi, text |-> FailedStub(files[fi], msgLen, fi)])
  /\ N_NextFile

\* Lines 41-49 and 147-156: fetch(f.url) and the branches that await nothing
\* more.  f.url of a null entry throws inside the try, f.name in the catch
\* throws again, and the outer catch answers.
N_Fetch ==
  /\ pc = "n_fetch"
  /\ LET f   == files[fi]
         out == FetchOutcome(f.url)
     IN  IF f.isNull
         THEN /\ N_Crash
              /\ Fails("fetch", fi)
              /\ UNCHANGED <<fi, text, i, docs, diagnostics, nFetch, trace>>
         ELSE /\ nFetch' = nFetch + 1
              /\ Log(<<"fetch", fi>>)
              /\ UNCHANGED response
              /\ IF out.threw
                 THEN N_FileError(NetworkErrorLen, diagnostics) /\ Fails("fetch", fi)
                 ELSE IF ~out.ok
                 THEN N_FileError(HttpErrorLen(f), diagnostics) /\ Fails("fetch", fi)
                 ELSE /\ UNCHANGED failures
                      /\ CASE N_Kind(f, out.ctype) = "pdf" ->
                                /\ pc' = "n_pdfparse"
                                /\ UNCHANGED <<fi, text, i, docs, diagnostics>>
                           [] N_Kind(f, out.ctype) = "docx" ->
                                /\ pc' = "n_mammoth"
                                /\ UNCHANGED <<fi, text, i, docs, diagnostics>>
                           [] N_Kind(f, out.ctype) = "text" ->
                                \E t \in FileTexts(f.url, fi) :
                                  N_FinishFile(t, diagnostics)
                           [] OTHER ->
                                N_FinishFile(UnsupportedStub(f, out.ctype, fi), diagnostics)
  /\ UNCHANGED <<input, attempts, results, chunks, ci, nOcr, llm, loop>>

\* Lines 51-64: pdf-parse (its import or the parse may throw), then the
\* choice of the OCR path.
N_PdfParse ==
  /\ pc = "n_pdfparse"
  /\ \E threw \in BOOLEAN :
       LET t  == IF threw THEN NoText ELSE PdfText(files[fi].url, fi)
           d1 == IF threw THEN Append(diagnostics, D("PDF-PARSE: failed", fi))
                 ELSE diagnostics
       IN  /\ IF threw THEN Fails("pdfparse", fi) ELSE UNCHANGED failures
           /\ Log(<<IF TrimLength(t) < MinTextLen THEN "parse-short" ELSE "parse-ok", fi>>)
           /\ IF Insufficient(t)
              THEN /\ text' = t
                   /\ IF azure
                      THEN /\ diagnostics' = Append(d1, D("AZURE: start", fi))
                           /\ pc' = "n_analyze"
                      ELSE /\ diagnostics' = d1
                           /\ pc' = "n_ocrspace"
                   /\ UNCHANGED <<fi, i, docs>>
              ELSE N_FinishFile(t, d1)
  /\ UNCHANGED <<input, calls, attempts, results, chunks, ci, response>>

\* Lines 70-86: the analyze call; every failure lands in the catch at 112.
N_Analyze ==
  /\ pc = "n_analyze"
  /\ nOcr' = nOcr + 1
  /\ \E r \in AnalyzeReplies :
       IF r = "accepted"
       THEN /\ pc' = "n_poll_sleep"
            /\ i' = 0
            /\ UNCHANGED <<diagnostics, failures>>
       ELSE /\ pc' = "n_ocrspace"
            /\ Fails("ocr", fi)
            /\ UNCHANGED i
            /\ diagnostics' =
                 Append(IF r = "http-error"
                        THEN Append(diagnostics, D("AZURE: analyze HTTP", fi))
                        ELSE IF r = "no-location"
                        THEN Append(diagnostics, D("AZURE: operation-location header missing", fi))
                        ELSE diagnostics,
                        D("AZURE: failed", fi))
  /\ Log(<<"ocr", fi>>)
  /\ UNCHANGED <<input, fi, text, attempts, docs, results, chunks, ci, response,
                 nFetch, llm, loop>>

\* One request too many: the test is i <= 30.
N_PollAgainInclusive(n) == n <= MaxPolls

\* Line 89: the loop test i < 30.
N_PollAgain(n) == n < MaxPolls

\* Lines 96-105: the statuses on which the loop breaks.
N_PollBreaks(status) == status = "succeeded" \/ status = "failed"

\* Line 90: the delay before a status request.
N_PollSleep ==
  /\ pc = "n_poll_sleep"
  /\ waited' = waited + PollDelayMs
  /\ pc' = "n_poll_request"
  /\ UNCHANGED <<trace, input, fi, text, i, attempts, docs, diagnostics, results, chunks, ci,
                 response, nFetch, nOcr, llm, polls, pollStatus, failures>>

\* Line 91: the status request goes out.
N_PollRequest ==
  /\ pc = "n_poll_request"
  /\ polls' = polls + 1
  /\ pc' = "n_poll_fetch"
  /\ UNCHANGED <<trace, input, fi, text, i, attempts, docs, diagnostics, results, chunks, ci,
                 response, nFetch, nOcr, llm, waited, pollStatus, failures>>

\* The loop is left: its counters go out of scope.
LoopLeft == i' = 0 /\ attempts' = 0 /\ polls' = 0 /\ waited' = 0 /\ pollStatus' = ""

\* Lines 107-111 after the loop: adopt the OCR text or keep text as it is.
N_AfterPolling(ocrText, ds) ==
  /\ IF OcrAdopted(ocrText)
     THEN text' = ocrText /\ diagnostics' = Append(ds, D("AZURE: success", fi))
     ELSE text' = text /\ diagnostics' = ds
  /\ pc' = "n_ocrspace"
  /\ LoopLeft

\* Lines 91-106: the answer to the status request and what the loop does
\* with it.
N_PollFetch ==
  /\ pc = "n_poll_fetch"
  /\ \E r \in PollReplies(fi) :
       LET d1 == IF i = 0 THEN Append(diagnostics, D("AZURE: first poll status", fi))
                 ELSE diagnostics
       IN  IF r.threw
           THEN /\ diagnostics' = Append(diagnostics, D("AZURE: failed", fi))
                /\ pc' = "n_ocrspace"
                /\ LoopLeft
                /\ Fails("ocr", fi)
                /\ UNCHANGED <<text, trace>>
           ELSE IF N_PollBreaks(r.status)
           THEN /\ N_AfterPolling(IF r.status = "succeeded" /\ r.hasLines
                                  THEN r.text ELSE NoText, d1)
                /\ IF r.status = "failed" THEN Fails("ocr", fi) ELSE UNCHANGED failures
                /\ IF r.status = "succeeded"
                   THEN Log(<<"azure-text", IF r.hasLines THEN TrimLength(r.text) ELSE 0>>)
                   ELSE UNCHANGED trace
           ELSE IF N_PollAgain(i + 1)
           THEN /\ i' = i + 1
                /\ pc' = "n_poll_sleep"
                /\ pollStatus' = r.status
                /\ diagnostics' = d1
                /\ UNCHANGED <<text, attempts, polls, waited, failures, trace>>
           ELSE N_AfterPolling(NoText, d1) /\ Fails("timeout", fi) /\ UNCHANGED trace
  /\ UNCHANGED <<input, fi, docs, results, chunks, ci, response, nFetch, nOcr, llm>>

\* Lines 117-145: OCR.space, called whenever the parsed text was
\* insufficient, whatever Azure gave.
N_OcrSpace ==
  /\ pc = "n_ocrspace"
  /\ nOcr' = nOcr + 1
  /\ \E threw \in BOOLEAN :
       \E ocrText \in OcrTexts(fi) \cup {NoText} :
         IF threw
         THEN /\ ocrText = NoText
              /\ N_FinishFile(text, Append(diagnostics, D("OCR.SPACE: failed", fi)))
              /\ Fails("ocr", fi)
              /\ Log(<<"ocr", fi>>)
         ELSE /\ UNCHANGED failures
              /\ IF OcrAdopted(ocrText)
                 THEN N_FinishFile(ocrText, Append(diagnostics, D("OCR.SPACE: success", fi)))
                 ELSE N_FinishFile(text, diagnostics)
              /\ trace' = trace \o << <<"ocr", fi>>, <<"ocrspace-text", TrimLength(ocrText)>> >>
  /\ UNCHANGED <<input, attempts, results, chunks, ci, response, nFetch, llm, loop>>

\* Lines 148-150: mammoth (its import or the extraction may throw, which
\* the per-file catch takes).
N_Mammoth ==
  /\ pc = "n_mammoth"
  /\ \E threw \in BOOLEAN :
       IF threw
       THEN N_FileError(LibraryErrorLen, diagnostics) /\ Fails("extract", fi)
       ELSE N_FinishFile(DocxText(files[fi].url, fi), diagnostics) /\ UNCHANGED failures
  /\ UNCHANGED <<trace, input, calls, attempts, results, chunks, ci, response>>

\* An answer of anthropic.messages.create: it throws, or the text blocks of
\* the completion joined.
LlmReply(threw, toks) == [threw |-> threw, text |-> toks]

JsonArrays(toks, n) == { <<"[">> \o a \o <<"]">> : a \in SeqsUpTo(toks, n) }

\* The answers that are no plain JSON array of good records.
OddReplies ==
  { LlmReply(TRUE, <<>>),                           \* the call throws
    LlmReply(FALSE, <<"p">>),                       \* prose, no brackets
    LlmReply(FALSE, <<"obj">>),                     \* a JSON object
    LlmReply(FALSE, <<"[", "p", "]">>),             \* brackets around no JSON
    LlmReply(FALSE, <<"]", "p", "[">>),             \* "]" before "["
    LlmReply(FALSE, <<"p", "[", "rA", "]", "p">>),  \* an array inside prose
    LlmReply(FALSE, <<"[", "rX", "]">>) }           \* an array holding null

\* One answer of every kind.
Replies ==
  OddReplies \cup { LlmReply(FALSE, <<"[", "]">>), LlmReply(FALSE, <<"[", "rA", "rB", "]">>) }

\* Every JSON array of up to MaxRecs records, and the failing call.
RecordReplies ==
  { LlmReply(TRUE, <<>>) }
  \cup { LlmReply(FALSE, a) : a \in JsonArrays({"rA", "rB", "rC", "rD", "rE"}, MaxRecs) }

\* Lines 368-392: dedupe, normalise, answer 200; a throw inside the filter
\* reaches the outer catch.
N_Finalize(rs, ds) ==
  IF DedupeThrows(rs)
  THEN N_Crash /\ results' = rs /\ diagnostics' = ds
  ELSE LET unique == Dedupe(rs)
           final  == Append(ds, D("CLAUDE: final results", Len(unique)))
       IN  /\ results' = Normalize(unique)
           /\ diagnostics' = final
           /\ Respond(200, TRUE, Normalize(unique), TRUE, final)

\* Lines 172-212: the SDK import, the checks on docs[0], the choice between
\* one call and chunks.
N_Import ==
  /\ pc = "n_import"
  /\ \E imported \in BOOLEAN :
       IF ~imported
       THEN N_Crash /\ Fails("import", 0) /\ UNCHANGED <<diagnostics, chunks, ci>>
       ELSE /\ UNCHANGED failures
            /\ IF Len(docs) = 0
               THEN /\ diagnostics' = Append(diagnostics, D("No documents to analyze", 0))
                    /\ RespondError(400, TRUE, diagnostics')
                    /\ UNCHANGED <<chunks, ci>>
               ELSE IF Insufficient(docs[1].text)
               THEN /\ diagnostics' = Append(diagnostics,
                                             D("insufficient text content", docs[1].name))
                    /\ RespondError(400, TRUE, diagnostics')
                    /\ UNCHANGED <<chunks, ci>>
               ELSE IF TextLength(docs[1].text) > ChunkTrigger
               THEN /\ chunks' = MakeChunks(docs[1].text)
                    /\ ci' = 1
                    /\ diagnostics' = diagnostics \o
                         << D("Processing", docs[1].name),
                            D("Large document detected", docs[1].name),
                            D("Split into chunks", Len(MakeChunks(docs[1].text))) >>
                    /\ pc' = "n_chunk"
                    /\ UNCHANGED response
               ELSE /\ diagnostics' = Append(diagnostics, D("Processing", docs[1].name))
                    /\ pc' = "n_single"
                    /\ UNCHANGED <<response, chunks, ci>>
  /\ UNCHANGED <<trace, input, calls, fi, text, i, attempts, docs, results>>

\* A failing chunk drops what the chunks before it gave.
N_ChunkKeepReset(rs, p, failed) ==
  IF failed THEN <<>> ELSE IF p.isArray THEN rs \o p.items ELSE rs

\* Lines 236-253: results after one chunk: an array is pushed onto
\* results, a failure or any other value leaves results as it was.
N_ChunkKeep(rs, p, failed) ==
  IF ~failed /\ p.isArray THEN rs \o p.items ELSE rs

\* Lines 214-256: one chunk's call; after the last chunk the handler runs
\* on to the response.
N_Chunk(R) ==
  /\ pc = "n_chunk"
  /\ nLlm' = nLlm + 1
  /\ llmSent' = Append(llmSent, chunks[ci].text)
  /\ \E r \in R :
       LET p      == ParseChunkResponse(r.text)
           failed == r.threw \/ p.threw
           rs     == N_ChunkKeep(results, p, failed)
           ds     == IF failed
                     THEN Append(diagnostics, D("Chunk failed", chunks[ci].chunkNum))
                     ELSE IF p.isArray
                     THEN Append(diagnostics, D("Chunk extracted", chunks[ci].chunkNum))
                     ELSE diagnostics
       IN  /\ llmGot' = Append(llmGot, r)
           /\ failures' = failures
                \cup (IF failed THEN {<<"llm", ci>>} ELSE {})
                \cup (IF ci = Len(chunks) /\ DedupeThrows(rs) THEN {<<"record", 0>>} ELSE {})
           /\ IF ci < Len(chunks)
              THEN /\ ci' = ci + 1
                   /\ results' = rs
                   /\ diagnostics' = ds
                   /\ UNCHANGED <<pc, response>>
              ELSE N_Finalize(rs, ds) /\ UNCHANGED ci
  /\ Log(<<"llm", ci>>)
  /\ UNCHANGED <<input, fi, text, i, attempts, docs, chunks, nFetch, nOcr, loop>>

\* The failure of the single call degrades to an empty result list.
N_AnalysisFailedEmpty(ds) ==
  N_Finalize(<<>>, Append(ds, D("Analysis failed", 0)))

\* Lines 353-364: the catch around the single call answers 502.
N_AnalysisFailed(ds) ==
  /\ diagnostics' = Append(ds, D("Analysis failed", 0))
  /\ RespondError(502, TRUE, diagnostics')
  /\ UNCHANGED results

\* Lines 260-364: the single call; a throw of the call or of the inner
\* JSON.parse answers 502.
N_Single(R) ==
  /\ pc = "n_single"
  /\ nLlm' = nLlm + 1
  /\ llmSent' = Append(llmSent, docs[1].text)
  /\ \E r \in R :
       LET p == ParseResponse(r.text)
       IN  /\ llmGot' = Append(llmGot, r)
           /\ IF r.threw \/ p.threw
              THEN N_AnalysisFailed(diagnostics) /\ Fails("llm", 1)
              ELSE /\ N_Finalize(p.items,
                        Append(diagnostics, D("Successfully extracted", Len(p.items))))
                   /\ IF DedupeThrows(p.items) THEN Fails("record", 0)
                      ELSE UNCHANGED failures
  /\ Log(<<"llm", 1>>)
  /\ UNCHANGED <<input, fi, text, i, attempts, docs, chunks, ci, nFetch, nOcr, loop>>

(***************************************************************************)
(* The Vercel function (api/specReview.js).                                 *)
(***************************************************************************)
\* The API key check left out.
V_GateNoKeyCheck ==
  IF method = "OPTIONS" THEN "preflight"
  ELSE IF method # "POST" THEN "method"
  ELSE IF body.shape = "absent" THEN "uncaught"
  ELSE IF body.test THEN "test"
  ELSE IF body.filesKind # "array" \/ Len(files) = 0 THEN "nofiles"
  ELSE "pass"

\* Lines 8-41: what the checks before the download decide.  Destructuring
\* an absent req.body throws outside the try.
V_Gate ==
  IF method = "OPTIONS" THEN "preflight"
  ELSE IF method # "POST" THEN "method"
  ELSE IF body.shape = "absent" THEN "uncaught"
  ELSE IF body.test THEN "test"
  ELSE IF body.filesKind # "array" \/ Len(files) = 0 THEN "nofiles"
  ELSE IF ~apiKey THEN "nokey"
  ELSE "pass"

\* Lines 224-234: the catch: two more diagnostics and status 500.
V_Error(ds) ==
  /\ diagnostics' = ds \o << D("Error", 0), D("Stack", 0) >>
  /\ RespondError(500, TRUE, diagnostics')

\* Lines 132-135: the inner catch of the PDF branch rethrows.
V_OcrError(ds) == V_Error(Append(ds, D("PDF OCR failed", 1)))

V_Start ==
  /\ pc = "start" /\ handler = "vercel"
  /\ CASE V_Gate = "preflight" -> RespondError(200, FALSE, <<>>) /\ UNCHANGED <<diagnostics, failures>>
       [] V_Gate = "method"    -> RespondError(405, FALSE, <<>>) /\ UNCHANGED <<diagnostics, failures>>
       [] V_Gate = "uncaught"  -> pc' = "uncaught" /\ UNCHANGED <<response, diagnostics, failures>>
       [] V_Gate = "test"      -> /\ RespondError(200, TRUE, <<D("Test mode", 0)>>)
                                  /\ UNCHANGED <<diagnostics, failures>>
       [] V_Gate = "nofiles"   -> RespondError(400, FALSE, <<>>) /\ UNCHANGED <<diagnostics, failures>>
       [] V_Gate = "nokey"     -> /\ diagnostics' = <<D("ANTHROPIC_API_KEY not set on server", 0)>>
                                  /\ RespondError(500, TRUE, diagnostics')
                                  /\ UNCHANGED failures
       [] OTHER ->
            IF files[1].isNull
            THEN V_Error(<<D("API key found", 0)>>) /\ Fails("fetch", 1)
            ELSE /\ diagnostics' = << D("API key found", 0), D("Processing file", 1),
                                      D("File URL", 1) >>
                 /\ pc' = "v_fetch"
                 /\ UNCHANGED <<response, failures>>
  /\ UNCHANGED <<trace, input, calls, fi, text, i, attempts, docs, results, chunks, ci>>

\* Lines 58, 60, 136: the dispatch on the name alone, case-sensitive.
V_Kind(f) ==
  IF f.ext \in {"txt", "js", "py", "json", "xml", "md"} THEN "text"
  ELSE IF f.ext = "pdf" THEN "pdf"
  ELSE "other"

\* Lines 120-130: the regular expression finds runs of readable characters
\* in the raw bytes, or none.
BasicText(url) ==
  IF url = "textpdf" THEN Txt("file", 1, 0, 80, 0) ELSE NoText

\* Lines 140-144: the length check after extraction.
V_AfterExtract(t, ds) ==
  IF Insufficient(t)
  THEN V_Error(ds) /\ Fails("insufficient", 1) /\ UNCHANGED text
  ELSE /\ text' = t
       /\ diagnostics' = Append(ds, D("Processing", 1))
       /\ pc' = "v_import"
       /\ UNCHANGED <<response, failures>>

\* Lines 49-138: the download and the branches that await nothing more.
V_Fetch ==
  /\ pc = "v_fetch"
  /\ nFetch' = nFetch + 1
  /\ LET f == files[1]
     IN  trace' = trace \o <<(<<"fetch", 1>>)>> \o
           (IF FetchOutcome(f.url).ok /\ V_Kind(f) = "pdf" /\ ~azure
            THEN <<(<<IF TrimLength(BasicText(f.url)) < MinTextLen THEN "parse-short"
                 ELSE "parse-ok", 1>>)>>
            ELSE <<>>)
  /\ LET f   == files[1]
         out == FetchOutcome(f.url)
         pdf == Append(diagnostics, D("PDF detected", 1))
     IN  IF out.threw \/ ~out.ok
         THEN V_Error(diagnostics) /\ Fails("fetch", 1) /\ UNCHANGED text
         ELSE CASE V_Kind(f) = "text" -> V_AfterExtract(Utf8Text(f.url, 1), diagnostics)
                [] V_Kind(f) = "pdf" ->
                     IF azure
                     THEN /\ diagnostics' = Append(pdf, D("Using Azure", 1))
                          /\ pc' = "v_analyze"
                          /\ UNCHANGED <<text, response, failures>>
                     ELSE IF BasicText(f.url) = NoText
                     THEN /\ V_OcrError(Append(pdf, D("Azure credentials not found", 1)))
                          /\ Fails("extract", 1)
                          /\ UNCHANGED text
                     ELSE V_AfterExtract(BasicText(f.url),
                            pdf \o << D("Azure credentials not found", 1),
                                      D("Basic text extraction found", 1) >>)
                [] OTHER -> V_Error(diagnostics) /\ Fails("unsupported", 1) /\ UNCHANGED text
  /\ UNCHANGED <<input, fi, i, attempts, docs, results, chunks, ci, nOcr, llm, loop>>

\* Lines 76-90: the analyze call.  A missing Operation-Location header is
\* not tested: the first status fetch then throws, which PollReplies holds.
V_Analyze ==
  /\ pc = "v_analyze"
  /\ nOcr' = nOcr + 1
  /\ \E r \in AnalyzeReplies \ {"no-location"} :
       IF r = "accepted"
       THEN /\ diagnostics' = Append(diagnostics, D("Azure OCR operation started", 1))
            /\ pc' = "v_poll_sleep"
            /\ UNCHANGED <<response, failures>>
       ELSE V_OcrError(diagnostics) /\ Fails("ocr", 1)
  /\ Log(<<"ocr", 1>>)
  /\ UNCHANGED <<input, fi, text, i, attempts, docs, results, chunks, ci, nFetch, llm, loop>>

\* Line 95: the loop test attempts < 30.
V_PollAgain(n) == n < MaxPolls

\* Lines 102-103: the statuses on which the loop ends (break, throw).
V_PollBreaks(status) == status = "succeeded" \/ status = "failed"

\* Line 96: the delay before a status request.
V_PollSleep ==
  /\ pc = "v_poll_sleep"
  /\ waited' = waited + PollDelayMs
  /\ pc' = "v_poll_request"
  /\ UNCHANGED <<trace, input, fi, text, i, attempts, docs, diagnostics, results, chunks, ci,
                 response, nFetch, nOcr, llm, polls, pollStatus, failures>>

\* Line 97: the status request goes out.
V_PollRequest ==
  /\ pc = "v_poll_request"
  /\ polls' = polls + 1
  /\ pc' = "v_poll_fetch"
  /\ UNCHANGED <<trace, input, fi, text, i, attempts, docs, diagnostics, results, chunks, ci,
                 response, nFetch, nOcr, llm, waited, pollStatus, failures>>

\* The loop is left without a text and the handler goes on with the
\* request.
V_PollTimeoutFallsThrough(ds) ==
  /\ diagnostics' = ds
  /\ pc' = "v_import"
  /\ UNCHANGED <<text, response>>

\* Lines 107-109: the loop ended without "succeeded": the handler throws
\* 'Azure OCR timed out' into the catch of the PDF branch.
V_PollTimeout(ds) == V_OcrError(ds) /\ UNCHANGED text

\* Lines 101-116: the answer to the status request.
V_PollFetch ==
  /\ pc = "v_poll_fetch"
  /\ \E r \in PollReplies(1) :
       IF r.threw
       THEN V_OcrError(diagnostics) /\ Fails("ocr", 1) /\ LoopLeft /\ UNCHANGED text
       ELSE IF V_PollBreaks(r.status)
       THEN /\ LoopLeft
            /\ IF r.status = "succeeded" /\ r.hasLines
               THEN V_AfterExtract(r.text, Append(diagnostics, D("Azure OCR successful", 1)))
               ELSE V_OcrError(diagnostics) /\ Fails("ocr", 1) /\ UNCHANGED text
       ELSE IF V_PollAgain(attempts + 1)
       THEN /\ attempts' = attempts + 1
            /\ pc' = "v_poll_sleep"
            /\ pollStatus' = r.status
            /\ UNCHANGED <<i, text, diagnostics, response, polls, waited, failures>>
       ELSE V_PollTimeout(diagnostics) /\ Fails("timeout", 1) /\ LoopLeft
  /\ UNCHANGED <<trace, input, fi, docs, results, chunks, ci, nFetch, nOcr, llm>>

\* Lines 147-157: the SDK import.
V_Import ==
  /\ pc = "v_import"
  /\ \E imported \in BOOLEAN :
       IF imported
       THEN /\ diagnostics' = Append(diagnostics, D("Anthropic import successful", 0))
            /\ pc' = "v_llm"
            /\ UNCHANGED <<response, failures>>
       ELSE V_Error(Append(diagnostics, D("Anthropic import failed", 0))) /\ Fails("import", 0)
  /\ UNCHANGED <<trace, input, calls, fi, text, i, attempts, docs, results, chunks, ci>>

\* Lines 183-222: the call, the parse, the 200 response.  The results are
\* returned as parsed.
V_Llm(R) ==
  /\ pc = "v_llm"
  /\ nLlm' = nLlm + 1
  /\ llmSent' = Append(llmSent, text)
  /\ \E r \in R :
       LET p    == ParseResponse(r.text)
           sent == Append(diagnostics, D("Calling Claude API", 0))
           got  == sent \o << D("Claude API call successful", 0),
                              D("Claude response length", 0) >>
       IN  /\ llmGot' = Append(llmGot, r)
           /\ IF r.threw
              THEN /\ V_Error(Append(sent, D("Claude API call failed", 0)))
                   /\ Fails("llm", 1)
                   /\ UNCHANGED results
              ELSE IF p.threw
              THEN V_Error(got) /\ Fails("llm", 1) /\ UNCHANGED results
              ELSE /\ results' = p.items
                   /\ diagnostics' = Append(got, D("Successfully extracted", Len(p.items)))
                   /\ Respond(200, TRUE, p.items, TRUE, diagnostics')
                   /\ UNCHANGED failures
  /\ Log(<<"llm", 1>>)
  /\ UNCHANGED <<input, fi, text, i, attempts, docs, chunks, ci, nFetch, nOcr, loop>>

(***************************************************************************)
(* The specifications.                                                     *)
(***************************************************************************)
NextWith(R) ==
  \/ N_Start \/ N_Fetch \/ N_PdfParse \/ N_Analyze
  \/ N_PollSleep \/ N_PollRequest \/ N_PollFetch
  \/ N_OcrSpace \/ N_Mammoth \/ N_Import \/ N_Chunk(R) \/ N_Single(R)
  \/ V_Start \/ V_Fetch \/ V_Analyze
  \/ V_PollSleep \/ V_PollRequest \/ V_PollFetch
  \/ V_Import \/ V_Llm(R)

Next == NextWith(Replies)

\* Every request shape, one LLM answer of every kind.
Spec == Init /\ [][Next]_vars

NextDedupe == NextWith(RecordReplies)

\* One file per request, every array of records as the LLM answer.
SpecDedupe == InitDedupe /\ [][NextDedupe]_vars

(***************************************************************************)
(* Two invocations of one function in one process.  Everything a handler   *)
(* writes is declared inside it (const docs, const diagnostics, let        *)
(* results, let text, ...), so each invocation has its own copy; the       *)
(* module level holds only constants and process.env.  The event loop runs  *)
(* one invocation up to its next await and may then go on with the other.  *)
(***************************************************************************)
\* The request and the locals of the invocation that is running.
Locals ==
  [method |-> method, body |-> body, pc |-> pc, fi |-> fi, text |-> text,
   i |-> i, attempts |-> attempts, docs |-> docs, diagnostics |-> diagnostics,
   results |-> results, chunks |-> chunks, ci |-> ci, response |-> response,
   nFetch |-> nFetch, nOcr |-> nOcr, nLlm |-> nLlm, polls |-> polls,
   waited |-> waited, pollStatus |-> pollStatus, llmSent |-> llmSent,
   llmGot |-> llmGot, failures |-> failures, trace |-> trace]

\* Everything but diagnostics goes with the invocation.
ResumeAll(l) ==
  /\ method' = l.method /\ body' = l.body /\ pc' = l.pc /\ fi' = l.fi
  /\ text' = l.text /\ i' = l.i /\ attempts' = l.attempts /\ docs' = l.docs
  /\ results' = l.results /\ chunks' = l.chunks
  /\ ci' = l.ci /\ response' = l.response /\ nFetch' = l.nFetch
  /\ nOcr' = l.nOcr /\ nLlm' = l.nLlm /\ polls' = l.polls
  /\ waited' = l.waited /\ pollStatus' = l.pollStatus /\ llmSent' = l.llmSent
  /\ llmGot' = l.llmGot /\ failures' = l.failures /\ trace' = l.trace

\* diagnostics is one array of the module, used by every invocation.
ResumeSharingDiagnostics(l) == ResumeAll(l) /\ UNCHANGED diagnostics

\* The invocation goes on with its own request and locals.
Resume(l) == ResumeAll(l) /\ diagnostics' = l.diagnostics

\* The invocation has started and not ended.
InFlight(l) == l.pc \notin {"absent", "start", "done", "uncaught"}

\* At an await the event loop goes on with the other invocation.
Switch ==
  /\ peer.pc \notin {"absent", "done", "uncaught"}
  /\ peer' = Locals
  /\ Resume(peer)
  /\ interleaved' = (interleaved \/ (InFlight(Locals) /\ InFlight(peer)))
  /\ UNCHANGED <<handler, apiKey, azure>>

\* The plain request: POST, a tender id, one text file of 60 characters.
PlainBody == Body("object", TRUE, FALSE, "array", <<FileEntry(FALSE, 1, "txt", "txt60")>>)

\* The LLM answers of the two invocations.
PairReplies ==
  { LlmReply(TRUE, <<>>), LlmReply(FALSE, <<"p">>), LlmReply(FALSE, <<"[", "rA", "rC", "]">>) }

\* One invocation with any one-file request, a second one with the plain
\* request, neither started.
InitPair ==
  /\ InitWith(SingleFileLists)
  /\ peer = [Locals EXCEPT !.method = "POST", !.body = PlainBody]
  /\ interleaved = FALSE

NextPair == NextWith(PairReplies) \/ Switch

SpecPair == InitPair /\ [][NextPair]_vars

(***************************************************************************)
(* One invocation under a fair runtime: an invocation is resumed whenever  *)
(* the call it awaits has returned or thrown, and every external call does *)
(* one or the other.  One file per request; the LLM call throws, answers   *)
(* prose or answers an array of one record.                                *)
(***************************************************************************)
\* The chunking alone: the Netlify function is asked to review one text
\* file of any size, and every LLM call answers an empty array.
SizedBody == Body("object", TRUE, FALSE, "array", <<FileEntry(FALSE, 1, "txt", "sized")>>)

InitChunking ==
  /\ InitWith({SizedBody.files})
  /\ handler = "netlify" /\ method = "POST" /\ apiKey
  /\ body = SizedBody
  /\ peer = NoPeer /\ interleaved = FALSE

EmptyReplies == { LlmReply(FALSE, <<"[", "]">>) }

NextChunking ==
  \/ N_Start \/ N_Fetch \/ N_Import
  \/ N_Chunk(EmptyReplies) \/ N_Single(EmptyReplies)

SpecChunking == InitChunking /\ [][NextChunking]_vars

\* Big first documents; every chunk call throws or answers one record.
ChunkReplies == { LlmReply(TRUE, <<>>), LlmReply(FALSE, <<"[", "rA", "]">>) }

NextChunk == NextWith(ChunkReplies)

SpecChunk == InitChunk /\ [][NextChunk]_vars

LiveReplies ==
  { LlmReply(TRUE, <<>>), LlmReply(FALSE, <<"p">>), LlmReply(FALSE, <<"[", "rA", "]">>) }

NextLive == NextWith(LiveReplies)

SpecLive == InitDedupe /\ [][NextLive]_vars /\ WF_vars(NextLive)

(***************************************************************************)
(* The claims.                                                             *)
(***************************************************************************)
\* No file fetch, OCR call, status request or LLM call has been made.
NoOutboundCall == nFetch = 0 /\ nOcr = 0 /\ nLlm = 0 /\ polls = 0

Answered == pc = "done"

\* C1 as stated: in both handlers every request whose method is not POST is
\* answered 405, and no file fetch, OCR call or LLM call is made for it.
C1_Stated ==
  (method # "POST" /\ pc # "start")
    => (Answered /\ response.status = 405 /\ NoOutboundCall)

\* C1: a request whose method is not POST makes no file fetch, OCR call or
\* LLM call and gets no results; it is answered 405, except that the Vercel
\* handler answers an OPTIONS request 200 (the CORS preflight).
C1_NonPostRejected ==
  (method # "POST")
    => /\ NoOutboundCall
       /\ ~response.hasResults
       /\ pc # "start" =>
            /\ Answered
            /\ response.status =
                 IF handler = "vercel" /\ method = "OPTIONS" THEN 200 ELSE 405

\* A GET request has been answered 405 by the Netlify handler.
C1_Witness ==
  handler = "netlify" /\ method = "GET" /\ Answered /\ response.status = 405

\* The body is JSON (or absent) and lacks a required field: tenderId, or a
\* non-empty files array.
LacksRequiredField ==
  /\ body.shape # "malformed"
  /\ ~body.tenderId \/ body.filesKind # "array" \/ Len(files) = 0

\* C2 as stated: in both handlers a POST request whose body lacks a required
\* field (tenderId missing, or files missing, not an array, or empty) is
\* answered 400 before any file fetch, OCR call or LLM call.  Read with the
\* API key set, as the key check is another claim's.
C2_Stated ==
  (method = "POST" /\ apiKey /\ LacksRequiredField /\ pc # "start")
    => (Answered /\ response.status = 400 /\ NoOutboundCall)

\* C3 as stated: in both handlers, when ANTHROPIC_API_KEY is not set, every
\* POST request gets an error status at once: never 200, and no file fetch,
\* OCR call or LLM call is made, whatever the body holds.
C3_Stated ==
  (method = "POST" /\ ~apiKey)
    => /\ NoOutboundCall
       /\ Answered => response.status >= 400

\* C3: when ANTHROPIC_API_KEY is not set a POST request makes no file fetch,
\* OCR call or LLM call and gets no results.  Netlify answers 501.  Vercel
\* throws on an absent body, answers a test-mode request 200 with the
\* configuration report, a request without files 400, and any other 500.
C3_NoKeyNoCall ==
  (method = "POST" /\ ~apiKey)
    => /\ NoOutboundCall
       /\ ~response.hasResults
       /\ pc \in {"start", "uncaught", "done"}
       /\ (pc = "uncaught") => (handler = "vercel" /\ body.shape = "absent")
       /\ Answered =>
            response.status =
              IF handler = "netlify" THEN 501
              ELSE IF body.test THEN 200
              ELSE IF body.filesKind # "array" \/ Len(files) = 0 THEN 400
              ELSE 500

\* Without the key, Vercel has answered a request naming a file with 500.
C3_Witness ==
  /\ handler = "vercel" /\ method = "POST" /\ ~apiKey
  /\ body.filesKind = "array" /\ Len(files) > 0 /\ ~body.test
  /\ Answered /\ response.status = 500

\* A POST request that passes the checks on the request: the key is set,
\* files is a non-empty array, tenderId is there, test mode is off.
Accepted ==
  /\ method = "POST" /\ apiKey
  /\ body.shape = "object" /\ body.tenderId /\ ~body.test
  /\ body.filesKind = "array" /\ Len(files) > 0

HasNullEntry == \E k \in 1..Len(files) : files[k].isNull

Count(s, Test(_)) == Cardinality({k \in 1..Len(s) : Test(s[k])})

\* The fetch of files[k], or its extraction under the per-file try, failed.
FileFailed(k) == <<"fetch", k>> \in failures \/ <<"extract", k>> \in failures

\* C5 as stated: in the Netlify file loop, when fetching or extracting file
\* f fails (non-ok status or a thrown error), exactly one FETCH ERROR
\* diagnostic and exactly one placeholder document for f are appended, and
\* every later file is still fetched and processed.
C5_Stated ==
  (handler = "netlify") =>
    \A k \in 1..Len(files) :
      FileFailed(k) =>
        /\ LET IsError(d) == d = D("FETCH ERROR", k)
           IN  Count(diagnostics, IsError) = 1
        /\ LET IsStub(d) == d.name = k /\ d.text.kind = "failedStub"
           IN  Count(docs, IsStub) = 1
        /\ LET IsDoc(d) == d.name = k
           IN  Count(docs, IsDoc) = 1
        /\ Answered => (fi = Len(files) + 1 /\ Len(docs) = Len(files))

\* The call of a chunk failed: the call threw, or the answer did not parse.
ChunkFailed(r) == r.threw \/ ParseChunkResponse(r.text).threw

\* What the answers in got contribute to results on the chunked path: the
\* items of every answer that is an array, in order.
RECURSIVE ChunkItems(_)
ChunkItems(got) ==
  IF got = <<>> THEN <<>>
  ELSE LET r == got[Len(got)]
           p == ParseChunkResponse(r.text)
       IN  ChunkItems(SubSeq(got, 1, Len(got) - 1))
             \o (IF ~ChunkFailed(r) /\ p.isArray THEN p.items ELSE <<>>)

\* C6: on the Netlify chunked path (first document longer than 25000
\* characters) a chunk whose call or parse fails adds one "Chunk k failed"
\* diagnostic and nothing else: the results of the other chunks are kept,
\* every chunk is still sent to the LLM, and the answer is never 502.
C6_ChunkFailureContained ==
  (handler = "netlify" /\ chunks # <<>>) =>
    /\ TextLength(docs[1].text) > ChunkTrigger
    /\ Len(llmGot) <= Len(chunks)
    /\ \A k \in 1..Len(llmGot) :
         LET IsFailed(d) == d = D("Chunk failed", k)
         IN  Count(diagnostics, IsFailed) = IF ChunkFailed(llmGot[k]) THEN 1 ELSE 0
    /\ (pc = "n_chunk") => (results = ChunkItems(llmGot) /\ Len(llmGot) = ci - 1)
    /\ Answered =>
         /\ response.status = IF <<"record", 0>> \in failures THEN 500 ELSE 200
         /\ response.status = 200 => response.results = Normalize(Dedupe(ChunkItems(llmGot)))
         /\ Len(llmGot) = Len(chunks)
         /\ llmSent = [k \in 1..Len(chunks) |-> chunks[k].text]

\* The first chunk failed, the second gave records, and the answer is 200
\* with records.
C6_Witness ==
  /\ handler = "netlify" /\ Len(chunks) = 2 /\ Answered
  /\ ChunkFailed(llmGot[1]) /\ ~ChunkFailed(llmGot[2])
  /\ response.status = 200 /\ Len(response.results) > 0

\* The records the LLM gave the Netlify handler, in output order.
RawItems ==
  IF chunks # <<>> THEN ChunkItems(llmGot)
  ELSE IF llmGot # <<>> THEN ParseResponse(llmGot[1].text).items
  ELSE <<>>

\* The normalized requirement text of a record: trimmed and lower-cased.
NormText(r) == Normalized(r.requirement)

\* The position in rs of the first record whose normalized text is t.
FirstWith(rs, t) ==
  CHOOSE k \in 1..Len(rs) :
    NormText(rs[k]) = t /\ \A j \in 1..(k - 1) : NormText(rs[j]) # t

Netlify200 == handler = "netlify" /\ Answered /\ response.status = 200

\* C7: in a 200 response of the Netlify handler no two records of results
\* have the same normalized requirement text; each record of results is the
\* first record of the LLM output with its normalized text, and the records
\* stand in the order of the LLM output.
C7_UniqueFirstInOrder ==
  Netlify200 =>
    LET out == response.results
        raw == RawItems
    IN  /\ \A a, b \in 1..Len(out) : a # b => NormText(out[a]) # NormText(out[b])
        /\ \A a \in 1..Len(out) :
             /\ \E k \in 1..Len(raw) : NormText(raw[k]) = NormText(out[a])
             /\ out[a].requirement = raw[FirstWith(raw, NormText(out[a]))].requirement
        /\ \A a, b \in 1..Len(out) :
             a < b => FirstWith(raw, NormText(out[a])) < FirstWith(raw, NormText(out[b]))

\* The LLM gave "aaa", a long text and " AAA  "; the first two are returned.
C7_Witness ==
  /\ Netlify200
  /\ Len(RawItems) >= 3 /\ Len(response.results) = 2
  /\ \E k \in 2..Len(RawItems) :
       /\ RawItems[1].requirement # RawItems[k].requirement
       /\ NormText(RawItems[1]) = NormText(RawItems[k])

\* The LLM record at position k of raw is in the results.
Retained(raw, k) ==
  \E a \in 1..Len(response.results) :
    response.results[a].requirement = raw[k].requirement

\* C8 as stated: every record whose normalized requirement text is not
\* empty and differs from the normalized text of every earlier record is
\* retained in results.
C8_Stated ==
  Netlify200 =>
    \A k \in 1..Len(RawItems) :
      ( /\ NormText(RawItems[k]) # <<>>
        /\ \A j \in 1..(k - 1) : NormText(RawItems[j]) # NormText(RawItems[k]) )
      => Retained(RawItems, k)

\* The first 100 characters of the normalized requirement text.
NormPrefix(r) == StrPrefix(Normalized(r.requirement), KeyLen)

\* The positions of raw whose records have a non-empty prefix that no
\* earlier record has.
NewPrefix(raw) ==
  { k \in 1..Len(raw) :
      /\ NormPrefix(raw[k]) # <<>>
      /\ \A j \in 1..(k - 1) : NormPrefix(raw[j]) # NormPrefix(raw[k]) }

\* C8: the Netlify dedupe goes by the first 100 characters of the
\* normalized requirement text: the results are exactly the records whose
\* prefix is not empty and differs from the prefix of every earlier record,
\* in order; records that differ only after the 100th character are merged.
C8_PrefixDedupe ==
  Netlify200 =>
    LET out == response.results
        raw == RawItems
        K   == NewPrefix(raw)
    IN  /\ Len(out) = Cardinality(K)
        /\ \A k \in K :
             out[Cardinality({j \in K : j <= k})].requirement = raw[k].requirement

\* Two records that differ only in their 101st character: one is returned.
C8_Witness ==
  /\ Netlify200
  /\ Len(RawItems) = 2 /\ Len(response.results) = 1
  /\ NormText(RawItems[1]) # NormText(RawItems[2])
  /\ NormPrefix(RawItems[1]) = NormPrefix(RawItems[2])

\* C9 as stated: the results of every 200 response of the Vercel handler
\* hold no two records with the same normalized requirement text.
C9_Stated ==
  (handler = "vercel" /\ Answered /\ response.status = 200 /\ response.hasResults) =>
    \A a, b \in 1..Len(response.results) :
      a # b => NormText(response.results[a]) # NormText(response.results[b])

\* A status request is about to go out: the delay before it has passed.
Requesting == pc \in {"n_poll_request", "v_poll_request"}

\* C10: in both handlers the Azure polling loop of a file issues at most 30
\* status requests, has slept the fixed delay of one second before each of
\* them (the first included), and issues no request after an answer whose
\* status is "succeeded" or "failed".
C10_BoundedPolling ==
  /\ polls <= MaxPolls
  /\ Requesting => polls < MaxPolls
  /\ waited = (IF Requesting THEN polls + 1 ELSE polls) * PollDelayMs
  /\ pollStatus \notin {"succeeded", "failed"}
  /\ (pc \in {"n_poll_sleep", "n_poll_request"}) => (handler = "netlify" /\ polls = i)
  /\ (pc \in {"v_poll_sleep", "v_poll_request"}) => (handler = "vercel" /\ polls = attempts)

\* The Vercel loop has issued its 30th status request, every answer before
\* it having been "running".
C10_Witness ==
  handler = "vercel" /\ pc = "v_poll_fetch" /\ polls = MaxPolls /\ pollStatus = "running"

\* The polling of file k reached the attempt ceiling without "succeeded" or
\* "failed".
TimedOut(k) == <<"timeout", k>> \in failures

\* After the timeout on file k the request went on: Netlify is at its
\* OCR.space call for the file or has finished the file; Vercel is past the
\* extraction.
WentOn(k) ==
  IF handler = "netlify"
  THEN (pc = "n_ocrspace" /\ fi = k) \/ Len(docs) >= k
  ELSE pc \in {"v_import", "v_llm"} \/ nLlm > 0

\* C11 as stated: in both handlers, when the Azure polling reaches the
\* attempt ceiling without "succeeded", the handler falls through to its
\* fallback extraction and goes on with the request; the timeout never
\* makes the request end with an error status.
C11_Stated ==
  \A k \in 1..Len(files) : TimedOut(k) => WentOn(k)

\* C11: when the Azure polling of a file reaches the ceiling of 30 requests
\* without "succeeded", the Netlify handler adds no diagnostic for it, goes
\* on to the OCR.space call for that file and then to the next file, and
\* the request ends as it would have without the timeout; the Vercel
\* handler throws 'Azure OCR timed out' and ends the request with status
\* 500, without results and without an LLM call.
C11_TimeoutFallthrough ==
  \A k \in 1..Len(files) :
    TimedOut(k) =>
      IF handler = "netlify"
      THEN /\ WentOn(k)
           /\ LET IsAzureFailed(d) == d = D("AZURE: failed", k)
              IN  Count(diagnostics, IsAzureFailed) = 0
           /\ (Answered /\ ~HasNullEntry /\ <<"import", 0>> \notin failures
                 /\ ~Insufficient(docs[1].text)
                 /\ <<"llm", 1>> \notin failures /\ <<"record", 0>> \notin failures)
                => response.status = 200
      ELSE /\ k = 1 /\ Answered /\ response.status = 500
           /\ ~response.hasResults /\ nLlm = 0
           /\ failures = {<<"timeout", 1>>}

\* Netlify has answered 200 after the polling of the first file timed out
\* and OCR.space gave its text.
C11_Witness ==
  /\ handler = "netlify" /\ TimedOut(1) /\ Answered /\ response.status = 200
  /\ docs[1].text.kind = "ocr"

\* The positions of trace that hold the event e.
At(e) == { j \in 1..Len(trace) : trace[j] = e }

\* C12 as stated: in both handlers an OCR call is made for a file only
\* after the primary parsing of that file has run and given fewer than 50
\* characters after trimming; a file whose primary parsing gives sufficient
\* text never triggers an OCR call.
C12_Stated ==
  \A k \in 1..Len(files) :
    /\ \A j \in At(<<"ocr", k>>) : \E p \in At(<<"parse-short", k>>) : p < j
    /\ At(<<"parse-ok", k>>) # {} => At(<<"ocr", k>>) = {}

\* C12: in the Netlify handler an OCR call (Azure analyze, OCR.space) is
\* made for a file only after pdf-parse ran on that file and threw or gave
\* fewer than 50 characters after trimming, and a file whose parse gave
\* sufficient text triggers none.  The Vercel handler, with Azure
\* configured, submits a .pdf first file to Azure right after the download
\* without parsing it; without Azure it makes no OCR call at all and
\* extracts the text itself.
C12_OcrAfterParse ==
  /\ (handler = "netlify") =>
       \A k \in 1..Len(files) :
         /\ \A j \in At(<<"ocr", k>>) :
              /\ \E p \in At(<<"parse-short", k>>) : p < j
              /\ \/ <<"pdfparse", k>> \in failures
                 \/ TrimLength(PdfText(files[k].url, k)) < MinTextLen
         /\ At(<<"parse-ok", k>>) # {} =>
              /\ At(<<"ocr", k>>) = {}
              /\ TrimLength(PdfText(files[k].url, k)) >= MinTextLen
         /\ Cardinality(At(<<"parse-ok", k>>) \cup At(<<"parse-short", k>>)) <= 1
  /\ (handler = "vercel") =>
       /\ \A k \in 2..Len(files) : At(<<"ocr", k>>) = {}
       /\ At(<<"ocr", 1>>) # {} =>
            /\ azure /\ files[1].ext = "pdf"
            /\ At(<<"parse-ok", 1>>) \cup At(<<"parse-short", 1>>) = {}
            /\ At(<<"ocr", 1>>) \cup At(<<"fetch", 1>>) = {1, 2}
       /\ At(<<"parse-ok", 1>>) \cup At(<<"parse-short", 1>>) # {} =>
            (~azure /\ nOcr = 0)

\* Netlify has parsed one PDF with a text layer and made no OCR call for it,
\* and has called both OCR services for a scanned one.
C12_Witness ==
  /\ handler = "netlify"
  /\ \E k \in 1..Len(files) : At(<<"parse-ok", k>>) # {} /\ At(<<"ocr", k>>) = {}
  /\ \E k \in 1..Len(files) : Cardinality(At(<<"ocr", k>>)) = 2

\* The positions of trace that hold an LLM call.
LlmCalls == { j \in 1..Len(trace) : trace[j][1] = "llm" }

\* C13: in both handlers the steps come in the order fetch file, extract
\* text, call the LLM, parse, return: every LLM call follows every fetch,
\* parse and OCR call of the request; when the first LLM call is issued the
\* extraction of every file the handler processes has finished (Netlify:
\* one document per element of files; Vercel: the text of files[0]); no
\* poll loop is running then; and a response is returned only when every
\* call issued has been answered.
C13_StepOrder ==
  /\ \A j \in LlmCalls : \A p \in 1..Len(trace) : trace[p][1] # "llm" => p < j
  /\ Cardinality(LlmCalls) = nLlm
  /\ (nLlm > 0 \/ pc \in {"n_import", "n_chunk", "n_single", "v_import", "v_llm"}) =>
       /\ polls = 0 /\ waited = 0
       /\ (handler = "netlify") =>
            /\ fi = Len(files) + 1
            /\ Len(docs) = Len(files)
            /\ \A k \in 1..Len(files) : docs[k].name = k /\ At(<<"fetch", k>>) # {}
       /\ (handler = "vercel") =>
            (At(<<"fetch", 1>>) = {1} /\ ~Insufficient(text) /\ text.src = 1)
  /\ Len(llmGot) = nLlm /\ Len(llmSent) = nLlm
  /\ Answered =>
       /\ pc \notin {"n_poll_fetch", "v_poll_fetch"}
       /\ response.status = 200 /\ response.hasResults => nLlm >= 1
       /\ (response.status = 200 /\ response.hasResults /\ handler = "vercel") =>
            response.results = ParseResponse(llmGot[1].text).items

\* Netlify has answered 200 after two fetches, an OCR call and two chunk
\* calls.
C13_Witness ==
  /\ handler = "netlify" /\ Answered /\ response.status = 200
  /\ nFetch = 2 /\ nOcr >= 1 /\ nLlm = 2

RecordFields == {"id", "severity", "category", "requirement", "rationale", "source"}

\* The record of results that the LLM record r becomes at 1-based position
\* a: the six fields, the id as a string, the defaults for what is absent
\* or falsy ("null" stands for the JSON null).
Shaped(r, a) ==
  [id          |-> CASE r.id.type = "string" /\ r.id.s # "" -> r.id.s
                     [] r.id.type = "number" /\ r.id.n # 0  -> ToString(r.id.n)
                     [] OTHER                               -> ToString(a),
   severity    |-> IF r.severity = "" THEN "Medium" ELSE r.severity,
   category    |-> IF r.category = "" THEN "Design" ELSE r.category,
   requirement |-> r.requirement,
   rationale   |-> r.rationale,
   source      |-> IF r.source = "" THEN "null" ELSE r.source]

\* C14: every record in results of a Netlify 200 response has exactly the
\* fields id, severity, category, requirement, rationale and source, with
\* id a string; a field absent or falsy in the LLM output has its default:
\* id the record's 1-based position after dedupe, severity "Medium",
\* category "Design", rationale "", source null.
C14_RecordShape ==
  Netlify200 =>
    LET out == response.results
        raw == RawItems
        K   == NewPrefix(raw)
    IN  /\ Len(out) = Cardinality(K)
        /\ \A a \in 1..Len(out) :
             DOMAIN out[a] = RecordFields /\ out[a].id \in STRING
        /\ \A k \in K :
             LET a == Cardinality({j \in K : j <= k})
             IN  out[a] = Shaped(raw[k], a)

\* The second record returned had no usable id, severity or category and
\* got "2", "Medium" and "Design".
C14_Witness ==
  /\ Netlify200 /\ Len(response.results) = 2
  /\ \E k \in NewPrefix(RawItems) :
       /\ Falsy(RawItems[k].id) /\ RawItems[k].category = ""
       /\ Cardinality({j \in NewPrefix(RawItems) : j <= k}) = 2
  /\ response.results[2].id = "2" /\ response.results[2].category = "Design"

\* C15 as stated: in both handlers the body of every response with status
\* 200 holds a results array of requirement records and a diagnostics list.
C15_Stated ==
  (Answered /\ response.status = 200) =>
    (response.hasResults /\ response.hasDiagnostics)

\* C15: the body of a 200 response to a request that ran the analysis holds
\* a results array and a diagnostics list; in Netlify every element of
\* results is a record of the six fields, in Vercel results is the array as
\* the LLM gave it.  Vercel has two more 200 responses: to OPTIONS, with no
\* body, and to a test-mode request, with the configuration report and a
\* diagnostics list but no results.
C15_OkBody ==
  (Answered /\ response.status = 200) =>
    IF handler = "vercel" /\ method = "OPTIONS"
    THEN ~response.hasResults /\ ~response.hasDiagnostics
    ELSE IF handler = "vercel" /\ body.test
    THEN /\ ~response.hasResults /\ response.hasDiagnostics
         /\ response.diagnostics = <<D("Test mode", 0)>>
    ELSE /\ method = "POST" /\ nLlm >= 1
         /\ response.hasResults /\ response.hasDiagnostics
         /\ response.diagnostics = diagnostics /\ Len(diagnostics) > 0
         /\ response.results = results
         /\ (handler = "netlify") =>
              \A a \in 1..Len(results) : DOMAIN results[a] = RecordFields
         /\ (handler = "vercel") =>
              results = ParseResponse(llmGot[1].text).items

\* Vercel has answered 200 with two records and its diagnostics.
C15_Witness ==
  /\ handler = "vercel" /\ Answered /\ response.status = 200
  /\ response.hasResults /\ response.hasDiagnostics
  /\ Len(response.results) = 2 /\ Len(response.diagnostics) > 0

\* The response to the plain request when it is handled alone, from what the
\* SDK import and the LLM call of the invocation gave (l.failures, l.llmGot).
AlonePlain(h, l) ==
  LET Resp(st, hasR, rs, hasD, ds) ==
        [status |-> st, hasResults |-> hasR, results |-> rs,
         hasDiagnostics |-> hasD, diagnostics |-> ds]
      r == l.llmGot[1]
      p == ParseResponse(r.text)
      n == <<D("Processing", 1)>>
      v == <<D("API key found", 0), D("Processing file", 1), D("File URL", 1),
             D("Processing", 1)>>
      tail == <<D("Error", 0), D("Stack", 0)>>
      call == v \o <<D("Anthropic import successful", 0), D("Calling Claude API", 0)>>
      got  == call \o <<D("Claude API call successful", 0), D("Claude response length", 0)>>
  IN  IF h = "netlify"
      THEN IF ~apiKey THEN Resp(501, FALSE, <<>>, FALSE, <<>>)
           ELSE IF <<"import", 0>> \in l.failures
           THEN Resp(500, FALSE, <<>>, TRUE, <<D("Function crashed", 0)>>)
           ELSE IF r.threw \/ p.threw
           THEN Resp(502, FALSE, <<>>, TRUE, Append(n, D("Analysis failed", 0)))
           ELSE IF DedupeThrows(p.items)
           THEN Resp(500, FALSE, <<>>, TRUE, <<D("Function crashed", 0)>>)
           ELSE LET u == Dedupe(p.items)
                IN  Resp(200, TRUE, Normalize(u), TRUE,
                         n \o <<D("Successfully extracted", Len(p.items)),
                                D("CLAUDE: final results", Len(u))>>)
      ELSE IF ~apiKey
           THEN Resp(500, FALSE, <<>>, TRUE, <<D("ANTHROPIC_API_KEY not set on server", 0)>>)
           ELSE IF <<"import", 0>> \in l.failures
           THEN Resp(500, FALSE, <<>>, TRUE,
                     v \o <<D("Anthropic import failed", 0)>> \o tail)
           ELSE IF r.threw
           THEN Resp(500, FALSE, <<>>, TRUE,
                     call \o <<D("Claude API call failed", 0)>> \o tail)
           ELSE IF p.threw THEN Resp(500, FALSE, <<>>, TRUE, got \o tail)
           ELSE Resp(200, TRUE, p.items, TRUE,
                     Append(got, D("Successfully extracted", Len(p.items))))

\* The diagnostics that only the handling of a PDF file writes.
PdfTags ==
  { "PDF-PARSE: failed", "AZURE: start", "AZURE: analyze HTTP",
    "AZURE: operation-location header missing", "AZURE: failed", "AZURE: success",
    "AZURE: first poll status", "OCR.SPACE: failed", "OCR.SPACE: success",
    "PDF detected", "Using Azure", "Azure credentials not found",
    "Basic text extraction found", "Azure OCR operation started",
    "Azure OCR successful", "PDF OCR failed" }

\* The invocation with locals l has ended, and what it answered came from
\* its own request and from the replies to its own calls.
OwnAnswer(l) ==
  l.pc = "done" =>
    /\ (l.method = "POST" /\ l.body = PlainBody) => l.response = AlonePlain(handler, l)
    /\ \A a \in 1..Len(l.response.diagnostics) :
         LET d == l.response.diagnostics[a]
         IN  /\ d.tag = "FETCH ERROR" => \E f \in l.failures : f[2] = d.arg
             /\ d.tag \in PdfTags =>
                  /\ d.arg \in 1..Len(l.body.files)
                  /\ LowerExt(l.body.files[d.arg].ext) = "pdf"
    /\ (l.response.status = 200 /\ l.response.hasResults /\ l.chunks = <<>>) =>
         LET got == ParseResponse(l.llmGot[1].text).items
         IN  l.response.results =
               IF handler = "netlify" THEN Normalize(Dedupe(got)) ELSE got

\* C16: two invocations of one handler with their awaits interleaved in any
\* order: the response of each holds only diagnostics and results of its own
\* request and its own calls, and the response to the plain request is the
\* one it gets when handled alone with the same replies.
C16_Isolation == OwnAnswer(Locals) /\ OwnAnswer(peer)

\* Both invocations have ended after running interleaved: the plain request
\* got 200 and the other one, whose file could not be fetched or was a
\* scanned PDF, wrote diagnostics the plain one never writes.
C16_Witness ==
  /\ interleaved /\ pc = "done" /\ peer.pc = "done"
  /\ \E l, m \in {Locals, peer} :
       /\ l.method = "POST" /\ l.body = PlainBody /\ l.response.status = 200
       /\ Len(l.response.results) = 2
       /\ m.body # PlainBody /\ m.nFetch = 1
       /\ \E a \in 1..Len(m.response.diagnostics) :
            m.response.diagnostics[a].tag \in PdfTags \cup {"FETCH ERROR"}

\* C17 as stated: every invocation of either handler eventually ends with a
\* response, whatever the request, given that every external call returns
\* or throws.
C17_Stated == <>Answered

\* The Netlify handler has left the file loop: it stands before the SDK
\* import and the document-count check, or beyond them.
PastFileLoop ==
  /\ handler = "netlify"
  /\ \/ pc \in {"n_import", "n_single", "n_chunk"}
     \/ pc = "done" /\ (nLlm >= 1 \/ <<"import", 0>> \in failures
                        \/ (response.status = 400 /\ response.hasDiagnostics))

\* C18: when the Netlify handler reaches the document-count check, docs holds
\* one entry per element of files, in the order of files, the failure stub
\* exactly for the files whose iteration ended in the catch; so docs is not
\* empty there and 'No documents to analyze' is never answered.
C18_OneDocPerFile ==
  /\ PastFileLoop =>
       /\ Len(docs) = Len(files) /\ Len(docs) >= 1
       /\ \A k \in 1..Len(docs) :
            /\ docs[k].name = k
            /\ docs[k].text.src \in {0, k}
            /\ (docs[k].text.kind = "failedStub")
                 <=> (\E a \in 1..Len(diagnostics) : diagnostics[a] = D("FETCH ERROR", k))
  /\ \A a \in 1..Len(diagnostics) : diagnostics[a].tag # "No documents to analyze"

\* The check is reached with two files, the first failed and the second
\* extracted.
C18_Witness ==
  /\ handler = "netlify" /\ pc = "n_import" /\ Len(files) = 2
  /\ docs[1].text.kind = "failedStub" /\ docs[2].text.kind = "file"

\* The LLM calls of a Netlify request whose first document has text t:
\* none for an insufficient text, one up to 25000 characters, one per chunk
\* beyond.
CallsFor(t) ==
  IF Insufficient(t) THEN 0
  ELSE IF TextLength(t) <= ChunkTrigger THEN 1
  ELSE CeilDiv(TextLength(t), ChunkSize - Overlap)

\* The Netlify handler has answered after the file loop ended and the SDK
\* import succeeded.
NetlifyRan ==
  /\ handler = "netlify" /\ Answered /\ Len(docs) >= 1 /\ Len(docs) = Len(files)
  /\ <<"import", 0>> \notin failures

ChunkEnd(c) == c.start + TextLength(c.text)

\* C20: the chunks of a text of length L > 25000: there are ceil(L / 19000)
\* of them, numbered 1.. with that total announced in each; each is the
\* slice of 1..20000 characters of the text at its start; the first starts
\* at 0, each later one starts 19000 after the one before and shares
\* min(1000, its own length) characters with it, and the last one ends at L,
\* so that every position 0..L-1 lies in a chunk.  A text of at most 25000
\* characters is not chunked.
C20_Chunking ==
  (handler = "netlify" /\ pc \in {"n_single", "n_chunk", "done"} /\ Len(docs) >= 1
     /\ (nLlm >= 1 \/ pc # "done")) =>
    LET t == docs[1].text
        L == TextLength(t)
        n == Len(chunks)
        stride == ChunkSize - Overlap
    IN  IF L <= ChunkTrigger THEN n = 0
        ELSE /\ n = CeilDiv(L, stride)
             /\ \A j \in 1..n :
                  /\ chunks[j].chunkNum = j
                  /\ chunks[j].totalChunks = n
                  /\ chunks[j].start = (j - 1) * stride
                  /\ TextLength(chunks[j].text) \in 1..ChunkSize
                  /\ chunks[j].text = TextSlice(t, chunks[j].start, ChunkEnd(chunks[j]))
                  /\ j > 1 =>
                       /\ chunks[j].start = chunks[j - 1].start + stride
                       /\ ChunkEnd(chunks[j - 1]) - chunks[j].start
                            = Min(Overlap, TextLength(chunks[j].text))
                  /\ j <= nLlm => llmSent[j] = chunks[j].text
             /\ chunks[1].start = 0
             /\ ChunkEnd(chunks[n]) = L

\* A text of 38001 characters was sent in three chunks, the last of them
\* the one character at position 38000.
C20_Witness ==
  /\ handler = "netlify" /\ Answered /\ nLlm = 3 /\ Len(chunks) = 3
  /\ TextLength(docs[1].text) = 2 * (ChunkSize - Overlap) + 1
  /\ TextLength(chunks[3].text) = 1
  /\ chunks[3].start = 2 * (ChunkSize - Overlap)

\* C21 as stated: every chunk holds a character position that the chunk
\* before it does not hold, so no chunk lies wholly inside the one before.
C21_Stated ==
  handler = "netlify" =>
    \A j \in 2..Len(chunks) : ChunkEnd(chunks[j]) > ChunkEnd(chunks[j - 1])

\* Record r of results is the normalised form of a record the LLM gave.
FromAnswers(r) ==
  \E a \in 1..Len(RawItems), k \in 0..Len(RawItems) : r = NormalizeRecord(RawItems[a], k)

\* C22: in both handlers every LLM request holds text of files[0] only (the
\* first document's text or a chunk of it), Vercel fetches no other file,
\* and every record of results comes from the answers to these requests.
C22_FirstFileOnly ==
  /\ \A j \in 1..Len(llmSent) :
       /\ llmSent[j].src = 1
       /\ handler = "netlify" =>
            /\ docs[1].name = 1 /\ docs[1].text.src = 1
            /\ llmSent[j] = IF chunks = <<>> THEN docs[1].text ELSE chunks[j].text
            /\ chunks # <<>> =>
                 chunks[j].text = TextSlice(docs[1].text, chunks[j].start,
                                            chunks[j].start + ChunkSize)
       /\ handler = "vercel" => llmSent[j] = text
  /\ handler = "vercel" =>
       /\ nFetch <= 1 /\ nLlm <= 1
       /\ \A p \in 1..Len(trace) : trace[p][1] # "llm" => trace[p][2] = 1
       /\ (Answered /\ response.status = 200 /\ response.hasResults) =>
            response.results = ParseResponse(llmGot[1].text).items
  /\ Netlify200 => \A a \in 1..Len(response.results) : FromAnswers(response.results[a])

\* A request with two readable files was answered 200: the one LLM request
\* held the first file's text, the second file's text is in docs only.
C22_Witness ==
  /\ Netlify200 /\ Len(files) = 2 /\ Len(docs) = 2
  /\ ~Insufficient(docs[2].text) /\ docs[2].text.src = 2
  /\ nLlm = 1 /\ llmSent[1] = docs[1].text /\ llmSent[1] # docs[2].text
  /\ Len(response.results) >= 1

\* The Netlify handler answered 400 'Document has no readable text'.
NoReadableText ==
  /\ handler = "netlify" /\ Answered /\ response.status = 400
  /\ \E a \in 1..Len(response.diagnostics) :
       response.diagnostics[a].tag = "insufficient text content"

\* File k was fetched and gave sufficient text.
Readable(k) ==
  /\ k \in 1..Len(docs)
  /\ docs[k].text.kind \in {"file", "ocr"}
  /\ ~Insufficient(docs[k].text)

\* C23 as stated: in the Netlify handler a request of which at least one
\* file yields sufficient text is not rejected with 400 'Document has no
\* readable text'.
C23_Stated ==
  (\E k \in 1..Len(docs) : Readable(k)) => ~NoReadableText

\* C24 as stated: the Netlify handler sends the LLM only text extracted from
\* a fetched file of a supported type, never the stubs 'Failed to load ...'
\* and 'Unsupported file type ...'.
C24_Stated ==
  handler = "netlify" =>
    \A j \in 1..Len(llmSent) : llmSent[j].kind \notin {"failedStub", "unsupportedStub"}

\* Azure OCR gave sufficient text for file k, which the handler adopted.
AzureSuccess(k) == \E a \in 1..Len(diagnostics) : diagnostics[a] = D("AZURE: success", k)

\* The OCR submissions for file k so far: the Azure analyze call and the
\* OCR.space call.
OcrCalls(k) == Count(trace, LAMBDA e : e = <<"ocr", k>>)

\* C25 as stated: in the Netlify handler OCR.space is called for a file only
\* if Azure is not configured or did not yield sufficient text, and an
\* adopted Azure text is never replaced by an OCR.space result.
C25_Stated ==
  handler = "netlify" =>
    \A k \in 1..Len(files) :
      AzureSuccess(k) =>
        /\ OcrCalls(k) <= 1
        /\ \A a \in 1..Len(diagnostics) : diagnostics[a] # D("OCR.SPACE: success", k)

\* The last entry of trace is the OCR answer of service s.
JustAnswered(s) == trace # <<>> /\ trace[Len(trace)][1] = s

\* C26 as stated: the Netlify handler adopts an OCR answer (Azure or
\* OCR.space) as the document text exactly when its trimmed length is at
\* least 50, the bound of the parsed text and of the first document; an
\* answer of exactly 50 trimmed characters is adopted.
C26_Stated ==
  /\ JustAnswered("azure-text") =>
       LET n == trace[Len(trace)][2]
       IN  (n >= MinTextLen) <=> (text.kind = "ocr" /\ TrimLength(text) = n)
  /\ JustAnswered("ocrspace-text") =>
       LET n == trace[Len(trace)][2]
           t == docs[Len(docs)].text
       IN  (n >= MinTextLen) => (t.kind = "ocr" /\ TrimLength(t) = n)

\* diagnostics holds entry d.
Noted(d) == \E a \in 1..Len(diagnostics) : diagnostics[a] = d

\* The Azure attempt for file k has ended: the handler stands at the
\* OCR.space call for the file or is past the file.
AzureEnded(k) ==
  /\ Noted(D("AZURE: start", k))
  /\ fi > k \/ (fi = k /\ pc = "n_ocrspace")

\* C27 as stated: in the Netlify handler every Azure OCR attempt that ends
\* without adopted text (analyze call rejected, operation-location missing,
\* a poll throwing, status 'failed', or the 30-poll ceiling reached) has
\* appended an 'AZURE: failed' diagnostic.
C27_Stated ==
  handler = "netlify" =>
    \A k \in 1..Len(files) :
      (AzureEnded(k) /\ ~AzureSuccess(k)) => Noted(D("AZURE: failed", k))


\* The three ways a response text is no parseable JSON array: it parses to
\* a value that is no array, it has no "[" followed by a later "]", or the
\* text from the first "[" to the last "]" is no JSON.
NotArrayValue(s) == ~JsonParse(s).threw /\ ~JsonParse(s).isArray

NoBrackets(s) ==
  /\ JsonParse(s).threw
  /\ ~(IndexOf(s, "[") # -1 /\ LastIndexOf(s, "]") > IndexOf(s, "["))

BracketsAroundInvalid(s) ==
  /\ JsonParse(s).threw
  /\ IndexOf(s, "[") # -1 /\ LastIndexOf(s, "]") > IndexOf(s, "[")
  /\ JsonParse(TokSlice(s, IndexOf(s, "["), LastIndexOf(s, "]") + 1)).threw

\* The single call of the Netlify handler was made and did not throw.
SingleCallAnswered ==
  /\ handler = "netlify" /\ chunks = <<>>
  /\ Len(llmGot) = 1 /\ ~llmGot[1].threw

\* C28 as stated: in the Netlify handler's single-call path, when the LLM
\* call succeeds but its response text is no parseable JSON array (no
\* brackets, brackets around invalid JSON, or a JSON value that is no array),
\* the request ends with status 200 and an empty results list.
C28_Stated ==
  (/\ SingleCallAnswered
   /\ \/ NoBrackets(llmGot[1].text)
      \/ BracketsAroundInvalid(llmGot[1].text)
      \/ NotArrayValue(llmGot[1].text))
    => /\ Answered
       /\ response.status = 200
       /\ response.hasResults /\ response.results = <<>>

=============================================================================
